---- MODULE Spec2Model ----
(***************************************************************************)
(* Model of the persistent control-mode Runner of package tmux:            *)
(* Init / Run / Close, the response framer readCommandOutput, and the      *)
(* tmux -C subprocess it talks to over two pipes.                          *)
(*                                                                         *)
(* Text is modelled character by character: a Go string is a sequence of   *)
(* one-character strings, so that strings.Join, strings.Split, Trim,       *)
(* slicing and fmt.Errorf are computed as the code computes them.          *)
(***************************************************************************)
EXTENDS Integers, Sequences, FiniteSets, TLC

\* ------------------------------------------------------------------ bounds
\* number of Run calls the caller issues between Init and Close
MaxRuns == 2
\* number of body lines of one response block
MaxBody == 2
\* number of notification lines the subprocess prints
MaxNotify == 1
\* number of sessions listed by one list-sessions
MaxSessions == 2
\* number of lines of a stream given to the framer
MaxStream == 4

\* ------------------------------------------------------------ text helpers
NL == "\n"

Digits == <<"0","1","2","3","4","5","6","7","8","9">>

\* strconv-style decimal rendering of a small natural (the %d verb)
RECURSIVE Itoa(_)
Itoa(n) == IF n < 10 THEN <<Digits[n + 1]>>
           ELSE Itoa(n \div 10) \o <<Digits[(n % 10) + 1]>>

\* Join with the separator after every element, the last one included
RECURSIVE Join_trailing(_, _)
Join_trailing(elems, sep) ==
    IF elems = <<>> THEN <<>>
    ELSE elems[1] \o sep \o Join_trailing(Tail(elems), sep)

\* strings.Join(elems, sep)
RECURSIVE Join(_, _)
Join(elems, sep) ==
    IF elems = <<>> THEN <<>>
    ELSE IF Len(elems) = 1 THEN elems[1]
    ELSE elems[1] \o sep \o Join(Tail(elems), sep)

\* strings.IndexByte(s, c) + 1: the first position of c in s, 0 when absent
IndexOf(s, c) ==
    IF \E i \in 1..Len(s) : s[i] = c
    THEN CHOOSE i \in 1..Len(s) : s[i] = c /\ \A j \in 1..(i - 1) : s[j] # c
    ELSE 0

\* strings.Split(s, "\n"): the pieces of s between newline characters
RECURSIVE Split(_)
Split(s) ==
    LET i == IndexOf(s, NL)
    IN  IF i = 0 THEN <<s>>
        ELSE <<SubSeq(s, 1, i - 1)>> \o Split(SubSeq(s, i + 1, Len(s)))

\* strings.Contains(s, sub)
Contains(s, sub) ==
    \E i \in 0..(Len(s) - Len(sub)) : SubSeq(s, i + 1, i + Len(sub)) = sub

\* s[lo:] of Go, for lo <= len(s); the caller checks the range
SliceFrom(s, lo) == SubSeq(s, lo + 1, Len(s))

\* src/trim.go
Trim(s) ==
    IF Len(s) = 0 THEN s
    ELSE IF s[Len(s)] = NL THEN SubSeq(s, 1, Len(s) - 1)
    ELSE s

\* --------------------------------------------------------------- fmt.Errorf
\* fmt.Errorf(format) called with no operands: every '%' starts a verb.
\* Flags, width and precision are consumed, then the verb: none left gives
\* %!(NOVERB), '%' gives a literal '%', any other verb has no operand and
\* gives %!<verb>(MISSING).  ('*' and '[' do not occur in the texts used.)
FmtFlags == {"#", "0", "+", "-", " "}
FmtDigits == {"0","1","2","3","4","5","6","7","8","9"}

RECURSIVE SkipWhile(_, _)
SkipWhile(s, set) ==
    IF s # <<>> /\ Head(s) \in set THEN SkipWhile(Tail(s), set) ELSE s

SkipPrecision(s) ==
    IF s # <<>> /\ Head(s) = "." THEN SkipWhile(Tail(s), FmtDigits) ELSE s

noVerbString == <<"%","!","(","N","O","V","E","R","B",")">>
missingString == <<"(","M","I","S","S","I","N","G",")">>

RECURSIVE Errorf0(_)
Errorf0(format) ==
    LET i == IndexOf(format, "%")
    IN  IF i = 0 THEN format
        ELSE LET after == SubSeq(format, i + 1, Len(format))
                 rest == SkipPrecision(SkipWhile(SkipWhile(after, FmtFlags),
                                                 FmtDigits))
             IN  SubSeq(format, 1, i - 1) \o
                 (IF rest = <<>> THEN noVerbString
                  ELSE IF Head(rest) = "%" THEN <<"%">> \o Errorf0(Tail(rest))
                  ELSE <<"%", "!", Head(rest)>> \o missingString
                           \o Errorf0(Tail(rest)))

\* ------------------------------------------------------------------- errors
Nil == [nil |-> TRUE, msg |-> <<>>]
Err(m) == [nil |-> FALSE, msg |-> m]

\* fmt.Errorf(fmt.Sprintf(...)): the formatted text is used as a format
Errorf(format) == Err(Errorf0(format))

EOF == Err(<<"E","O","F">>)
ErrClosed == Err(<<"f","i","l","e"," ","a","l","r","e","a","d","y"," ","c","l","o","s","e","d">>)
ErrPipe == Err(<<"b","r","o","k","e","n"," ","p","i","p","e">>)
ErrNotFound == Err(<<"e","x","e","c","u","t","a","b","l","e"," ","f","i","l","e"," ","n","o","t"," ","f","o","u","n","d">>)
ErrExit == Err(<<"e","x","i","t"," ","s","t","a","t","u","s"," ","1">>)
ErrProcessDone == Err(<<"p","r","o","c","e","s","s"," ","a","l","r","e","a","d","y"," ","f","i","n","i","s","h","e","d">>)

\* ------------------------------------------------------------ wire protocol
tmuxBeginMarker == <<"%","b","e","g","i","n">>
tmuxEndMarker == <<"%","e","n","d">>
tmuxErrorMarker == <<"%","e","r","r","o","r">>

stateBeforeOutput == 0
stateOutput == 1
stateError == 2
stateEnd == 3

isBeginLine(line) ==
    IF Len(line) < Len(tmuxBeginMarker) THEN FALSE
    ELSE SubSeq(line, 1, Len(tmuxBeginMarker)) = tmuxBeginMarker

\* beginLine[len(tmuxBeginMarker)+1:] is out of range and panics when the
\* line is shorter than the marker plus one character
SlicePanics(line) == Len(tmuxBeginMarker) + 1 > Len(line)

getExpectedEndLine(beginLine) ==
    tmuxEndMarker \o <<" ">> \o SliceFrom(beginLine, Len(tmuxBeginMarker) + 1)

getExpectedErrorLine(beginLine) ==
    tmuxErrorMarker \o <<" ">> \o SliceFrom(beginLine, Len(tmuxBeginMarker) + 1)


\* ---------------------------------------------------- texts used by the model
ListSessionsCmd == <<"l","i","s","t","-","s","e","s","s","i","o","n","s"," ","-","F"," ","'","#","{","s","e","s","s","i","o","n","_","n","a","m","e","}","'">>
KillSessionPrefix == <<"k","i","l","l","-","s","e","s","s","i","o","n"," ","-","t"," ">>
\* AttachSession("missing") and SetPaneWidth("%1", 80)
AttachCmd == <<"a","t","t","a","c","h"," ","-","t"," ","'","m","i","s","s","i","n","g","'">>
ResizeCmd == <<"r","e","s","i","z","e","-","p","a","n","e"," ","-","x"," ","'","8","0","'"," ","-","t"," ","'","%","1","'">>
Commands == {AttachCmd, ResizeCmd}

\* session names the server may hold
SessionNames == {<<"m","a","i","n">>, <<"0">>}

\* lines a command may print between its begin line and its terminator
OutputLines == { <<"c","a","n","'","t"," ","f","i","n","d"," ","p","a","n","e",":"," ","%","1">>,
                 <<>> }

\* unsolicited notification lines of control mode
NotifyLines == { <<"%","e","x","i","t">>,
                 <<"%","s","e","s","s","i","o","n","s","-","c","h","a","n","g","e","d">> }

Sockets == {"", "test"}

SeqsUpTo(S, n) == UNION { [1..k -> S] : k \in 0..n }
IsInjective(q) == \A i, j \in 1..Len(q) : q[i] = q[j] => i = j
Range(q) == { q[i] : i \in 1..Len(q) }

\* what list-sessions -F '#{session_name}' can print: each session once
Listings == { q \in SeqsUpTo(SessionNames, MaxSessions) : IsInjective(q) }
Bodies == SeqsUpTo(OutputLines, MaxBody)

\* the tag of the n-th block the subprocess prints
Tag(n) == <<Digits[n + 1]>>
BeginLine(tag) == tmuxBeginMarker \o <<" ">> \o tag
EndLine(tag) == tmuxEndMarker \o <<" ">> \o tag
ErrorLine(tag) == tmuxErrorMarker \o <<" ">> \o tag

\* standard output of the one-shot list-sessions: one line per session
RECURSIVE OneShotOutput(_)
OneShotOutput(names) ==
    IF names = <<>> THEN <<>>
    ELSE names[1] \o <<NL>> \o OneShotOutput(Tail(names))

\* ------------------------------------------------------------------- state
VARIABLES
    pc,                 \* where the caller's thread is
    op,                 \* the operation readCommandOutput / Run works for
    cmd,                \* Run's parameter
    Config,             \* Runner.Config
    tmpSession,         \* Runner.tmpSession
    tmuxCommand,        \* Runner.tmuxCommand: argument list and Process
    readScanner,        \* Runner.readScanner: "none", or the sticky end state
    state,              \* readCommandOutput locals
    expectedEndLine,
    expectedErrorLine,
    outputLines,
    rco,                \* what readCommandOutput returned
    ret,                \* what the last Run returned (at most one element)
    result,             \* what Init or Close returned (at most one element)
    sessionsBeforeStart,\* Init local
    host,               \* the tmux -C subprocess
    stdin,              \* command lines written and not yet read by it
    stdout,             \* lines it printed and the scanner has not yet read
    tags,               \* number of blocks it has begun
    \* history of the operation in progress
    trace,              \* lines read by the current readCommandOutput
    block,              \* the response block printed for the last command
    snapshot,           \* the names listed before and after the spawn
    launches,           \* argument lists of the processes Init launched
    written,            \* number of commands written to the subprocess
    runs,               \* number of Run calls of the caller
    kills,              \* the results of the Process.Kill calls
    prev,               \* how the caller's previous Run ended
    notes,              \* number of notification lines printed
    streamFailed,       \* a read of the subprocess output has failed
    name,               \* StartSession's parameter
    server,             \* the sessions of the tmux server of each socket
    rs                  \* the Runners of two owners working side by side

framer == <<state, expectedEndLine, expectedErrorLine, outputLines>>
runner == <<Config, tmpSession, tmuxCommand, sessionsBeforeStart>>
hostv == <<host, stdin, stdout, tags, notes>>
aux == <<name, server, rs>>
vars == <<pc, op, cmd, Config, tmpSession, tmuxCommand, readScanner, state,
          expectedEndLine, expectedErrorLine, outputLines, rco, ret, result,
          sessionsBeforeStart, host, stdin, stdout, tags, trace, block,
          snapshot, launches, written, runs, kills, prev, notes, streamFailed,
          name, server, rs>>

NoCommand == [args |-> <<>>, Process |-> "nil"]
NoSnapshot == [before |-> {}, after |-> {}, taken |-> 0]

Init ==
    /\ pc = "new" /\ op = "none" /\ cmd = <<>>
    /\ Config = [Socket |-> ""] /\ tmpSession = <<>>
    /\ tmuxCommand = NoCommand /\ readScanner = "none"
    /\ state = stateBeforeOutput /\ expectedEndLine = <<>>
    /\ expectedErrorLine = <<>> /\ outputLines = <<>>
    /\ rco = <<>> /\ ret = <<>> /\ result = <<>>
    /\ sessionsBeforeStart = <<>>
    /\ host = "none" /\ stdin = <<>> /\ stdout = <<>> /\ tags = 0
    /\ trace = <<>> /\ block = <<>> /\ snapshot = NoSnapshot
    /\ launches = <<>> /\ written = 0 /\ runs = 0 /\ kills = <<>> /\ prev = "none" /\ notes = 0
    /\ streamFailed = FALSE
    /\ name = <<>> /\ server = <<>> /\ rs = <<>>


\* --------------------------------------------------------- the response framer
\* Runner.readNextLine: one Scan of the bufio.Scanner over the read pipe.
\* A Scanner that has stopped (end of stream or read error) stays stopped.
readNextLine(scan, out, h) ==
    IF scan # "none"
    THEN [ok |-> FALSE, line |-> <<>>, scan |-> scan, rest |-> out,
          err |-> IF scan = "eof" THEN EOF ELSE ErrClosed]
    ELSE IF out # <<>>
    THEN [ok |-> TRUE, line |-> Head(out), scan |-> "none", rest |-> Tail(out),
          err |-> Nil]
    ELSE IF h = "dead"
    THEN [ok |-> FALSE, line |-> <<>>, scan |-> "eof", rest |-> out, err |-> EOF]
    ELSE [ok |-> FALSE, line |-> <<>>, scan |-> "err", rest |-> out,
          err |-> ErrClosed]

\* the read blocks while the subprocess lives and has printed nothing new
CanRead == readScanner # "none" \/ stdout # <<>> \/ host \in {"dead", "failed"}

Going(st, eEnd, eErr, out) ==
    [done |-> "no", state |-> st, expectedEndLine |-> eEnd,
     expectedErrorLine |-> eErr, outputLines |-> out,
     output |-> <<>>, err |-> Nil]

Returning(st, eEnd, eErr, out, output, err) ==
    [done |-> "return", state |-> st, expectedEndLine |-> eEnd,
     expectedErrorLine |-> eErr, outputLines |-> out,
     output |-> output, err |-> err]

Panicking(st, eEnd, eErr, out) ==
    [done |-> "panic", state |-> st, expectedEndLine |-> eEnd,
     expectedErrorLine |-> eErr, outputLines |-> out,
     output |-> <<>>, err |-> Nil]

tmuxErrorPrefix == <<"t","m","u","x"," ","e","r","r","o","r",":"," ">>

\* readCommandOutputStep with an end of stream inside a block taken for the
\* end of the block
readCommandOutputStep_eof(st, eEnd, eErr, out, rd) ==
    IF st = stateBeforeOutput
    THEN IF ~rd.ok THEN Returning(st, eEnd, eErr, out, <<>>, rd.err)
         ELSE LET st2 == IF isBeginLine(rd.line) THEN stateOutput ELSE st
              IN  IF SlicePanics(rd.line) THEN Panicking(st2, eEnd, eErr, out)
                  ELSE Going(st2, getExpectedEndLine(rd.line),
                             getExpectedErrorLine(rd.line), out)
    ELSE IF ~rd.ok \/ rd.line = eEnd
         THEN Returning(stateEnd, eEnd, eErr, out, Join(out, <<NL>>), Nil)
         ELSE IF rd.line = eErr
         THEN Returning(stateError, eEnd, eErr, out, <<>>,
                        Errorf(tmuxErrorPrefix \o Join(out, <<NL>>)))
         ELSE Going(st, eEnd, eErr, Append(out, rd.line))

\* readCommandOutputStep with a terminator recognised by its marker alone
readCommandOutputStep_prefix(st, eEnd, eErr, out, rd) ==
    IF st = stateBeforeOutput
    THEN IF ~rd.ok THEN Returning(st, eEnd, eErr, out, <<>>, rd.err)
         ELSE LET st2 == IF isBeginLine(rd.line) THEN stateOutput ELSE st
              IN  IF SlicePanics(rd.line) THEN Panicking(st2, eEnd, eErr, out)
                  ELSE Going(st2, getExpectedEndLine(rd.line),
                             getExpectedErrorLine(rd.line), out)
    ELSE IF ~rd.ok THEN Returning(st, eEnd, eErr, out, <<>>, rd.err)
         ELSE IF /\ Len(rd.line) > Len(tmuxEndMarker)
                 /\ SubSeq(rd.line, 1, Len(tmuxEndMarker) + 1) = tmuxEndMarker \o <<" ">>
         THEN Returning(stateEnd, eEnd, eErr, out, Join(out, <<NL>>), Nil)
         ELSE IF /\ Len(rd.line) > Len(tmuxErrorMarker)
                 /\ SubSeq(rd.line, 1, Len(tmuxErrorMarker) + 1) = tmuxErrorMarker \o <<" ">>
         THEN Returning(stateError, eEnd, eErr, out, <<>>,
                        Errorf(tmuxErrorPrefix \o Join(out, <<NL>>)))
         ELSE Going(st, eEnd, eErr, Append(out, rd.line))

\* one reading iteration of the loop of readCommandOutput, followed by the
\* stateEnd / stateError iteration when the line read was a terminator
readCommandOutputStep(st, eEnd, eErr, out, rd) ==
    IF st = stateBeforeOutput
    THEN IF ~rd.ok THEN Returning(st, eEnd, eErr, out, <<>>, rd.err)
         ELSE LET st2 == IF isBeginLine(rd.line) THEN stateOutput ELSE st
              IN  IF SlicePanics(rd.line) THEN Panicking(st2, eEnd, eErr, out)
                  ELSE Going(st2, getExpectedEndLine(rd.line),
                             getExpectedErrorLine(rd.line), out)
    ELSE IF ~rd.ok THEN Returning(st, eEnd, eErr, out, <<>>, rd.err)
         ELSE IF rd.line = eEnd
         THEN Returning(stateEnd, eEnd, eErr, out, Join(out, <<NL>>), Nil)
         ELSE IF rd.line = eErr
         THEN Returning(stateError, eEnd, eErr, out, <<>>,
                        Errorf(tmuxErrorPrefix \o Join(out, <<NL>>)))
         ELSE Going(st, eEnd, eErr, Append(out, rd.line))

runErrorPrefix == <<"E","r","r","o","r"," ","r","u","n","n","i","n","g"," ","c","o","m","m","a","n","d"," ","'">>
runErrorInfix == <<"'",":"," ","'">>

\* RunResult with io.EOF not counted as an error
RunResult_eof(c, output, err) ==
    IF ~err.nil /\ err # EOF
    THEN [output |-> <<>>,
          err |-> Errorf(runErrorPrefix \o c \o runErrorInfix \o err.msg)]
    ELSE [output |-> output, err |-> Nil]

\* what Run returns once readCommandOutput has returned (output, err)
RunResult(c, output, err) ==
    IF ~err.nil
    THEN [output |-> <<>>,
          err |-> Errorf(runErrorPrefix \o c \o runErrorInfix \o err.msg)]
    ELSE [output |-> output, err |-> Nil]

\* -------------------------------------------------------------- the Runner
\* WriteFailure with the error wrapped as a read error is
WriteFailure_wrapped(c, err) == RunResult(c, <<>>, err)

\* what Run returns when writePipe.Write fails: "", err
WriteFailure(c, err) == [output |-> <<>>, err |-> err]

\* Run(c) up to the call of readCommandOutput: the command line is written
\* to the write pipe; a failed write returns its error as it is.
\* The pipe of a subprocess that never started is closed; the pipe of one
\* that has exited may still accept the bytes or fail.
WriteOutcomes ==
    IF host \in {"starting", "alive"} THEN {TRUE}
    ELSE IF host = "dead" THEN {TRUE, FALSE}
    ELSE {FALSE}

RunWrite(o, c) ==
    /\ op' = o
    /\ cmd' = c
    /\ trace' = <<>>
    /\ block' = <<>>
    /\ rco' = <<>>
    /\ \E w \in WriteOutcomes :
         IF w
         THEN /\ stdin' = Append(stdin, c)
              /\ written' = written + 1
              /\ state' = stateBeforeOutput
              /\ expectedEndLine' = <<>>
              /\ expectedErrorLine' = <<>>
              /\ outputLines' = <<>>
              /\ ret' = <<>>
              /\ pc' = "read"
         ELSE /\ ret' = <<WriteFailure(c, ErrPipe)>>
              /\ pc' = "Run_ret"
              /\ UNCHANGED <<stdin, written, framer>>

\* CommandArgs that leaves the socket out
CommandArgs_nosocket(c, args) == args

\* Command(c, args...): the argument list of the one-shot process
CommandArgs(c, args) ==
    IF c.Socket # "" THEN <<"-L", c.Socket>> \o args ELSE args

\* ControlArgs that leaves the socket out
ControlArgs_default(c) == <<"-C">>

\* the arguments of exec.Command(tmuxPath, ...) for the control subprocess
ControlArgs(c) ==
    IF c.Socket # "" THEN <<"-L", c.Socket, "-C">> ELSE <<"-C">>

\* Init, first step: r.Config = c and the lookup of the executable
InitTmux(c) ==
    /\ pc = "new"
    /\ Config' = c
    /\ op' = "Init"
    /\ \/ pc' = "Init_before" /\ UNCHANGED result
       \/ pc' = "Init_ret" /\ result' = <<ErrNotFound>>
    /\ UNCHANGED <<cmd, tmpSession, tmuxCommand, readScanner, framer, rco, ret,
                   sessionsBeforeStart, hostv, trace, block, snapshot,
                   launches, prev, written, runs, kills, streamFailed>>
    /\ UNCHANGED aux

\* Init: getSessionNamesByCommand, the one-shot list-sessions
getSessionNamesByCommand ==
    /\ pc = "Init_before"
    /\ launches' = Append(launches,
                          CommandArgs(Config, <<"list-sessions", "-F", "#{session_name}">>))
    /\ \/ \E names \in Listings :
            /\ sessionsBeforeStart' = Split(OneShotOutput(names))
            /\ snapshot' = [snapshot EXCEPT !.before = Range(names), !.taken = 1]
            /\ pc' = "Init_spawn"
            /\ UNCHANGED result
       \/ /\ result' = <<ErrExit>>
          /\ pc' = "Init_ret"
          /\ UNCHANGED <<sessionsBeforeStart, snapshot>>
    /\ UNCHANGED <<op, cmd, Config, tmpSession, tmuxCommand, readScanner,
                   framer, rco, ret, hostv, trace, block, written, runs,
                   kills, streamFailed, prev>>
    /\ UNCHANGED aux

\* Init: exec.Command, StdinPipe, StdoutPipe, NewScanner, Start (whose error
\* is dropped), and the entry into the first readCommandOutput
InitSpawn ==
    /\ pc = "Init_spawn"
    /\ LET args == ControlArgs(Config)
       IN  \/ /\ tmuxCommand' = [args |-> args, Process |-> "nil"]
              /\ result' = <<ErrPipe>>
              /\ pc' = "Init_ret"
              /\ UNCHANGED <<host, launches, op>>
           \/ /\ \/ /\ tmuxCommand' = [args |-> args, Process |-> "started"]
                    /\ host' = "starting"
                    /\ launches' = Append(launches, args)
                 \/ /\ tmuxCommand' = [args |-> args, Process |-> "nil"]
                    /\ host' = "failed"
                    /\ UNCHANGED launches
              /\ op' = "Init_startup"
              /\ pc' = "read"
              /\ UNCHANGED result
    /\ readScanner' = "none"
    /\ state' = stateBeforeOutput
    /\ expectedEndLine' = <<>>
    /\ expectedErrorLine' = <<>>
    /\ outputLines' = <<>>
    /\ UNCHANGED <<cmd, Config, tmpSession, rco, ret, sessionsBeforeStart,
                   stdin, stdout, tags, trace, block, snapshot, written, runs,
                   kills, streamFailed, notes, prev>>
    /\ UNCHANGED aux

\* readCommandOutput: one line is read and handled
readCommandOutput ==
    /\ pc = "read"
    /\ CanRead
    /\ LET rd == readNextLine(readScanner, stdout, host)
           f == readCommandOutputStep(state, expectedEndLine,
                                      expectedErrorLine, outputLines, rd)
       IN  /\ readScanner' = rd.scan
           /\ stdout' = rd.rest
           /\ trace' = IF rd.ok THEN Append(trace, rd.line) ELSE trace
           /\ streamFailed' = (streamFailed \/ ~rd.ok)
           /\ state' = f.state
           /\ expectedEndLine' = f.expectedEndLine
           /\ expectedErrorLine' = f.expectedErrorLine
           /\ outputLines' = f.outputLines
           /\ IF f.done = "return"
              THEN /\ rco' = <<[output |-> f.output, err |-> f.err]>>
                   /\ pc' = "rco_ret"
              ELSE IF f.done = "panic"
              THEN /\ rco' = <<>>
                   /\ pc' = IF op = "Close" THEN "Close_panic" ELSE "panic"
              ELSE UNCHANGED <<rco, pc>>
    /\ UNCHANGED <<op, cmd, runner, ret, result, host, stdin, tags, block,
                   snapshot, launches, prev, written, runs, kills, notes>>
    /\ UNCHANGED aux

\* InitAfterStartup that goes on whatever the first read returned
InitAfterStartup_ignoring ==
    /\ pc = "rco_ret" /\ op = "Init_startup"
    /\ RunWrite("Init_list", ListSessionsCmd)
    /\ UNCHANGED <<result, runner, readScanner, host, stdout, tags, snapshot,
                   launches, prev, runs, kills, streamFailed, notes>>
    /\ UNCHANGED aux

\* Init after the startup block: its error ends Init, otherwise
\* getSessionNames calls Run("list-sessions -F '#{session_name}'")
InitAfterStartup ==
    /\ pc = "rco_ret" /\ op = "Init_startup"
    /\ IF ~rco[1].err.nil
       THEN /\ result' = <<rco[1].err>>
            /\ pc' = "Init_ret"
            /\ UNCHANGED <<op, cmd, trace, block, rco, stdin, written, framer,
                           ret>>
       ELSE /\ RunWrite("Init_list", ListSessionsCmd)
            /\ UNCHANGED result
    /\ UNCHANGED <<runner, readScanner, host, stdout, tags, snapshot,
                   launches, prev, runs, kills, streamFailed, notes>>
    /\ UNCHANGED aux

\* Run after readCommandOutput has returned
RunReturn ==
    /\ pc = "rco_ret" /\ op \in {"Init_list", "Run", "Close", "Start_list", "Start_new"}
    /\ ret' = <<RunResult(cmd, rco[1].output, rco[1].err)>>
    /\ pc' = "Run_ret"
    /\ UNCHANGED <<op, cmd, runner, readScanner, framer, rco, result, hostv,
                   trace, block, snapshot, launches, prev, written, runs, kills,
                   streamFailed>>
    /\ UNCHANGED aux

expectedOnePrefix == <<"e","x","p","e","c","t","e","d"," ","e","x","a","c","t","l","y"," ","1"," ","n","e","w"," ","s","e","s","s","i","o","n"," ","b","u","t"," ","f","o","u","n","d"," ">>

\* newSessions with the two lists exchanged
newSessions_swapped(before, after) ==
    SelectSeq(before, LAMBDA session : session \notin Range(after))

\* newSessions with the membership test inverted
newSessions_inverted(before, after) ==
    SelectSeq(after, LAMBDA session : session \in Range(before))

\* the sessions of after that are no key of the map built from before
newSessions(before, after) ==
    SelectSeq(after, LAMBDA session : session \notin Range(before))

\* Init from the return of getSessionNames to its own return
InitFinish ==
    /\ pc = "Run_ret" /\ op = "Init_list"
    /\ pc' = "Init_ret"
    /\ sessionsBeforeStart' = <<>>      \* the local ends with Init
    /\ IF ~ret[1].err.nil
       THEN /\ result' = <<ret[1].err>>
            /\ UNCHANGED <<tmpSession, snapshot>>
       ELSE LET sessionsAfterStart == Split(Trim(ret[1].output))
                new == newSessions(sessionsBeforeStart, sessionsAfterStart)
            IN  /\ snapshot' = [snapshot EXCEPT !.after = IF block = <<>> THEN {}
                                                          ELSE Range(block[1].body),
                                                !.taken = 2]
                /\ IF Len(new) # 1
                   THEN /\ result' = <<Err(expectedOnePrefix \o Itoa(Len(new))
                                           \o <<":", " ">> \o Join(new, <<",">>))>>
                        /\ UNCHANGED tmpSession
                   ELSE /\ tmpSession' = new[1]
                        /\ result' = <<Nil>>
    /\ UNCHANGED <<op, cmd, Config, tmuxCommand,
                   readScanner, framer, rco, ret, hostv, trace, block,
                   launches, prev, written, runs, kills, streamFailed>>
    /\ UNCHANGED aux

\* the Runner is initialised and no call is in progress
Idle ==
    \/ pc = "Init_ret" /\ result = <<Nil>>
    \/ pc = "Run_ret" /\ op = "Run"

\* how the Run that has just returned to the caller ended
Outcome ==
    IF pc = "Init_ret" THEN "none"
    ELSE IF ret[1].err.nil THEN "ok"
    ELSE IF rco = <<>> THEN "write"
    ELSE IF state = stateError THEN "protocol"
    ELSE "stream"

\* the caller calls Run(c)
Run(c) ==
    /\ Idle
    /\ runs < MaxRuns
    /\ runs' = runs + 1
    /\ prev' = Outcome
    /\ RunWrite("Run", c)
    /\ snapshot' = NoSnapshot
    /\ result' = <<>>
    /\ UNCHANGED <<runner, readScanner, host, stdout, tags, launches, kills,
                   streamFailed, notes>>
    /\ UNCHANGED aux

\* CloseCommand without the target
CloseCommand_untargeted(t) == KillSessionPrefix

\* fmt.Sprintf("kill-session -t %s", r.tmpSession)
CloseCommand(t) == KillSessionPrefix \o t

\* the caller calls Close(): Run("kill-session -t " + tmpSession)
Close ==
    /\ Idle
    /\ prev' = Outcome
    /\ RunWrite("Close", CloseCommand(tmpSession))
    /\ snapshot' = NoSnapshot
    /\ result' = <<>>
    /\ UNCHANGED <<runner, readScanner, host, stdout, tags, launches, runs,
                   kills, streamFailed, notes>>
    /\ UNCHANGED aux

\* CloseResult with a Kill error returned to the caller
CloseResult_kill(runErr, killErr) == IF ~killErr.nil THEN killErr ELSE runErr

\* what Close returns: the error of the kill-session Run, whatever Kill did
CloseResult(runErr, killErr) == runErr

\* Close: the return value is set from the kill-session Run, then the
\* deferred function kills the process; a Kill error is only written to
\* standard error.  The deferred function also runs when Run panicked, and
\* dereferences Process, which is nil when the process never started.
CloseKill ==
    /\ pc \in {"Run_ret", "Close_panic"} /\ op = "Close"
    /\ IF tmuxCommand.Process = "nil"
       THEN /\ pc' = "panic"
            /\ UNCHANGED <<kills, host, result>>
       ELSE \E e \in {Nil, ErrProcessDone} :
              /\ kills' = Append(kills, e)
              /\ host' = IF host \in {"starting", "alive"} /\ e.nil
                         THEN "dead" ELSE host
              /\ IF pc = "Close_panic"
                 THEN pc' = "panic" /\ UNCHANGED result
                 ELSE /\ pc' = "Close_ret"
                      /\ result' = <<CloseResult(ret[1].err, e)>>
    /\ UNCHANGED <<op, cmd, runner, readScanner, framer, rco, ret, stdin,
                   stdout, tags, trace, block, snapshot, launches, prev,
                   written, runs, streamFailed, notes>>
    /\ UNCHANGED aux

\* ------------------------------------------------------ the tmux -C subprocess
\* the lines of a block
BlockLines(tag, kind, body) ==
    <<BeginLine(tag)>> \o body
        \o <<IF kind = "end" THEN EndLine(tag) ELSE ErrorLine(tag)>>

\* the bodies the subprocess may print for command c in a block of that kind
HostBodies(c, kind) ==
    { b \in (IF c = ListSessionsCmd /\ kind = "end" THEN Listings ELSE Bodies) :
        \A i \in 1..Len(b) : b[i] \notin {EndLine(Tag(tags)), ErrorLine(Tag(tags))} }

\* the subprocess prints the first n lines of a block: all of them, or all
\* but the terminator when it exits before the block is complete
HostPrint(c, kind, body, n) ==
    LET lines == BlockLines(Tag(tags), kind, body)
    IN  /\ stdout' = stdout \o SubSeq(lines, 1, n)
        /\ host' = IF n = Len(lines) THEN "alive" ELSE "dead"
        /\ block' = <<[cmd |-> c, index |-> tags, kind |-> kind, body |-> body,
                       lines |-> lines, printed |-> n]>>
        /\ tags' = tags + 1

\* on startup tmux -C prints a begin line and its end line with nothing between
HostStartup ==
    /\ host = "starting"
    /\ \E n \in {1, 2} : HostPrint(<<>>, "end", <<>>, n)
    /\ UNCHANGED <<pc, op, cmd, runner, readScanner, framer, rco, ret, result,
                   stdin, trace, snapshot, launches, prev, written, runs, kills,
                   streamFailed, notes>>
    /\ UNCHANGED aux

\* the subprocess reads the next command line and prints its response block
HostRespond ==
    /\ host = "alive"
    /\ stdin # <<>>
    /\ stdin' = Tail(stdin)
    /\ \E kind \in {"end", "error"} :
         \E body \in HostBodies(Head(stdin), kind) :
           \E n \in {Len(body) + 1, Len(body) + 2} : HostPrint(Head(stdin), kind, body, n)
    /\ UNCHANGED <<pc, op, cmd, runner, readScanner, framer, rco, ret, result,
                   trace, snapshot, launches, prev, written, runs, kills,
                   streamFailed, notes>>
    /\ UNCHANGED aux

\* between blocks the subprocess prints a notification line
HostNotify ==
    /\ host = "alive"
    /\ notes < MaxNotify
    /\ notes' = notes + 1
    /\ \E line \in NotifyLines : stdout' = Append(stdout, line)
    /\ UNCHANGED <<pc, op, cmd, runner, readScanner, framer, rco, ret, result,
                   host, stdin, tags, trace, block, snapshot, launches, prev,
                   written, runs, kills, streamFailed>>
    /\ UNCHANGED aux

\* the subprocess exits
HostExit ==
    /\ host = "alive"
    /\ host' = "dead"
    /\ UNCHANGED <<pc, op, cmd, runner, readScanner, framer, rco, ret, result,
                   stdin, stdout, tags, trace, block, snapshot, launches, prev,
                   written, runs, kills, streamFailed, notes>>
    /\ UNCHANGED aux

Next ==
    \/ \E s \in Sockets : InitTmux([Socket |-> s])
    \/ getSessionNamesByCommand
    \/ InitSpawn
    \/ readCommandOutput
    \/ InitAfterStartup
    \/ RunReturn
    \/ InitFinish
    \/ \E c \in Commands : Run(c)
    \/ Close
    \/ CloseKill
    \/ HostStartup
    \/ HostRespond
    \/ HostNotify
    \/ HostExit

Spec == Init /\ [][Next]_vars

\* ------------------------------------ a caller that goes on after Init failed
\* Init has returned the error of the lookup of the executable, or the
\* error of the count of new sessions
BootstrapFailed ==
    /\ pc = "Init_ret" /\ result # <<Nil>>
    /\ result = <<ErrNotFound>> \/ snapshot.taken = 2

\* the caller calls Run(c) on the Runner although Init returned such an
\* error.  After a failed lookup writePipe is nil and the call of Write
\* panics; after a failed count the pipes and the subprocess are there.
RunAfterFailedInit(c) ==
    /\ BootstrapFailed \/ (pc = "Run_ret" /\ op = "Run" /\ tmpSession = <<>>)
    /\ runs < MaxRuns
    /\ runs' = runs + 1
    /\ prev' = Outcome
    /\ result' = <<>>
    /\ snapshot' = NoSnapshot
    /\ IF tmuxCommand = NoCommand
       THEN /\ pc' = "panic" /\ op' = "Run" /\ cmd' = c
            /\ UNCHANGED <<trace, block, rco, ret, stdin, written, framer>>
       ELSE RunWrite("Run", c)
    /\ UNCHANGED <<runner, readScanner, host, stdout, tags, launches, kills,
                   streamFailed, notes>>
    /\ UNCHANGED aux

NextAfterFailedInit ==
    \/ \E s \in Sockets : InitTmux([Socket |-> s])
    \/ getSessionNamesByCommand
    \/ InitSpawn
    \/ readCommandOutput
    \/ InitAfterStartup
    \/ RunReturn
    \/ InitFinish
    \/ \E c \in Commands : RunAfterFailedInit(c)
    \/ HostStartup
    \/ HostRespond
    \/ HostNotify
    \/ HostExit

SpecAfterFailedInit == Init /\ [][NextAfterFailedInit]_vars

\* ------------------------------------------------------------- StartSession
\* A Runner whose Init has succeeded, on a server that keeps its sessions:
\* the caller calls StartSession, the subprocess answers list-sessions with
\* the sessions of the server and new-session by creating the session.
NewSessionPrefix == <<"n","e","w","-","s","e","s","s","i","o","n"," ","-","d"," ","-","s"," ">>
NewSessionCmd(n) == NewSessionPrefix \o n
DuplicatePrefix == <<"d","u","p","l","i","c","a","t","e"," ","s","e","s","s","i","o","n",":"," ">>
ServerFailure == <<"s","e","r","v","e","r"," ","e","x","i","t","e","d"," ","u","n","e","x","p","e","c","t","e","d","l","y">>

\* the state Init leaves behind when it has recorded the session "0"
InitStartSession ==
    /\ pc = "Init_ret" /\ op = "Init_list" /\ cmd = ListSessionsCmd
    /\ Config \in { [Socket |-> s] : s \in Sockets }
    /\ tmpSession = <<"0">>
    /\ server \in { [s \in Sockets |->
                        [sessions |-> IF s = Config.Socket THEN l ELSE <<>>,
                         next |-> 1]] :
                      l \in { q \in Listings : <<"0">> \in Range(q) } }
    /\ tmuxCommand = [args |-> ControlArgs(Config), Process |-> "started"]
    /\ readScanner = "none"
    /\ state = stateEnd /\ expectedEndLine = EndLine(Tag(1))
    /\ expectedErrorLine = ErrorLine(Tag(1))
    /\ outputLines = server[Config.Socket].sessions
    /\ rco = <<[output |-> Join(outputLines, <<NL>>), err |-> Nil]>>
    /\ ret = rco /\ result = <<Nil>>
    /\ sessionsBeforeStart = <<>>
    /\ host = "alive" /\ stdin = <<>> /\ stdout = <<>> /\ tags = 2
    /\ trace = <<>> /\ block = <<>> /\ snapshot = NoSnapshot
    /\ launches = <<CommandArgs(Config, <<"list-sessions", "-F", "#{session_name}">>),
                    tmuxCommand.args>>
    /\ written = 1 /\ runs = 0 /\ kills = <<>> /\ prev = "none" /\ notes = 0
    /\ streamFailed = FALSE
    /\ name = <<>> /\ rs = <<>>

\* the caller calls StartSession(n): ListSessions calls Run(list-sessions)
StartSession(n) ==
    /\ pc \in {"Init_ret", "Start_ret"}
    /\ runs < MaxRuns
    /\ runs' = runs + 1
    /\ name' = n
    /\ result' = <<>>
    /\ RunWrite("Start_list", ListSessionsCmd)
    /\ UNCHANGED <<runner, readScanner, host, stdout, tags, snapshot, launches,
                   kills, prev, streamFailed, notes, server, rs>>

\* StartAfterList that issues new-session whatever was listed
StartAfterList_always ==
    /\ pc = "Run_ret" /\ op = "Start_list"
    /\ IF ~ret[1].err.nil
       THEN /\ result' = <<ret[1].err>>
            /\ pc' = "Start_ret"
            /\ UNCHANGED <<op, cmd, trace, block, rco, stdin, written, framer,
                           ret>>
       ELSE /\ RunWrite("Start_new", NewSessionCmd(name))
            /\ UNCHANGED result
    /\ UNCHANGED <<runner, readScanner, host, stdout, tags, snapshot, launches,
                   kills, prev, runs, streamFailed, notes, aux>>

\* StartSession once ListSessions has returned: its error is returned;
\* otherwise new-session is run when no listed name equals the name
StartAfterList ==
    /\ pc = "Run_ret" /\ op = "Start_list"
    /\ IF ~ret[1].err.nil
       THEN /\ result' = <<ret[1].err>>
            /\ pc' = "Start_ret"
            /\ UNCHANGED <<op, cmd, trace, block, rco, stdin, written, framer,
                           ret>>
       ELSE LET sessions == Split(Trim(ret[1].output))
                sessionRunning == \E i \in 1..Len(sessions) : sessions[i] = name
            IN  IF ~sessionRunning
                THEN /\ RunWrite("Start_new", NewSessionCmd(name))
                     /\ UNCHANGED result
                ELSE /\ result' = <<Nil>>
                     /\ pc' = "Start_ret"
                     /\ UNCHANGED <<op, cmd, trace, block, rco, stdin, written,
                                    framer, ret>>
    /\ UNCHANGED <<runner, readScanner, host, stdout, tags, snapshot, launches,
                   kills, prev, runs, streamFailed, notes, aux>>

\* StartSession once the Run of new-session has returned
StartFinish ==
    /\ pc = "Run_ret" /\ op = "Start_new"
    /\ result' = <<ret[1].err>>
    /\ pc' = "Start_ret"
    /\ UNCHANGED <<op, cmd, runner, readScanner, framer, rco, ret, hostv,
                   trace, block, snapshot, launches, prev, written, runs, kills,
                   streamFailed, aux>>

\* the subprocess reads the next command and answers it from the server:
\* list-sessions prints the sessions, new-session creates the session or
\* reports a duplicate; either may fail and leave the server as it is
ServerRespond ==
    /\ host = "alive"
    /\ stdin # <<>>
    /\ stdin' = Tail(stdin)
    /\ LET c == Head(stdin)
           sessions == server[Config.Socket].sessions
       IN  \/ /\ c = ListSessionsCmd
              /\ HostPrint(c, "end", sessions, Len(sessions) + 2)
              /\ UNCHANGED server
           \/ \E n \in SessionNames :
                /\ c = NewSessionCmd(n)
                /\ IF n \in Range(sessions)
                   THEN /\ HostPrint(c, "error", <<DuplicatePrefix \o n>>, 3)
                        /\ UNCHANGED server
                   ELSE /\ HostPrint(c, "end", <<>>, 2)
                        /\ server' = [server EXCEPT ![Config.Socket].sessions = Append(@, n)]
           \/ /\ HostPrint(c, "error", <<ServerFailure>>, 3)
              /\ UNCHANGED server
    /\ UNCHANGED <<pc, op, cmd, runner, readScanner, framer, rco, ret, result,
                   trace, snapshot, launches, prev, written, runs, kills,
                   streamFailed, notes, name, rs>>

NextStartSession ==
    \/ \E n \in SessionNames : StartSession(n)
    \/ readCommandOutput
    \/ RunReturn
    \/ StartAfterList
    \/ StartFinish
    \/ ServerRespond
    \/ HostNotify
    \/ HostExit

SpecStartSession == InitStartSession /\ [][NextStartSession]_vars

\* ------------------------------------------------- two Runners side by side
\* Two owners, each with its own Runner, subprocess and pipes, working at the
\* same time; the servers are shared: Runners with the same Socket talk to
\* the same server.  The executable is found and the subprocesses start and
\* answer.  A Runner is a record of rs; readCommandOutput is taken in one
\* step over the lines its subprocess has printed.
Owners == {1, 2}

\* the server a tmux process with these arguments talks to
SocketOf(args) ==
    IF Len(args) >= 2 /\ args[1] = "-L" THEN args[2] ELSE ""

SessionsChanged == <<"%","s","e","s","s","i","o","n","s","-","c","h","a","n","g","e","d">>

\* readCommandOutput over the lines q: its return values and the lines left
\* unread, or "block" when it would wait for more lines
RECURSIVE Consume(_, _, _, _, _)
Consume(st, eEnd, eErr, out, q) ==
    IF q = <<>> THEN [done |-> "block", output |-> <<>>, err |-> Nil, rest |-> q]
    ELSE LET rd == readNextLine("none", q, "alive")
             f == readCommandOutputStep(st, eEnd, eErr, out, rd)
         IN  IF f.done = "no"
             THEN Consume(f.state, f.expectedEndLine, f.expectedErrorLine,
                          f.outputLines, rd.rest)
             ELSE [done |-> f.done, output |-> f.output, err |-> f.err,
                   rest |-> rd.rest]

readCommandOutputAll(q) == Consume(stateBeforeOutput, <<>>, <<>>, <<>>, q)

NoRunner(c) ==
    [c |-> c, pc |-> "new", Config |-> [Socket |-> ""], tmpSession |-> <<>>,
     sessionsBeforeStart |-> <<>>, cmd |-> <<>>, ret |-> <<>>, result |-> <<>>,
     host |-> "none", socket |-> "", stdin |-> <<>>, stdout |-> <<>>,
     tags |-> 0, runs |-> 0, own |-> <<>>, block |-> <<>>]

\* both servers run and hold the session "main"; each owner has chosen the
\* Config it will pass to Init
InitTwo ==
    /\ rs \in [Owners -> { NoRunner([Socket |-> s]) : s \in Sockets }]
    /\ server = [s \in Sockets |-> [sessions |-> <<(<<"m","a","i","n">>)>>,
                                    next |-> 1]]
    /\ pc = "new" /\ op = "none" /\ cmd = <<>>
    /\ Config = [Socket |-> ""] /\ tmpSession = <<>>
    /\ tmuxCommand = NoCommand /\ readScanner = "none"
    /\ state = stateBeforeOutput /\ expectedEndLine = <<>>
    /\ expectedErrorLine = <<>> /\ outputLines = <<>>
    /\ rco = <<>> /\ ret = <<>> /\ result = <<>>
    /\ sessionsBeforeStart = <<>>
    /\ host = "none" /\ stdin = <<>> /\ stdout = <<>> /\ tags = 0
    /\ trace = <<>> /\ block = <<>> /\ snapshot = NoSnapshot
    /\ launches = <<>> /\ written = 0 /\ runs = 0 /\ kills = <<>>
    /\ prev = "none" /\ notes = 0 /\ streamFailed = FALSE
    /\ name = <<>>

one == <<pc, op, cmd, Config, tmpSession, tmuxCommand, readScanner, state,
         expectedEndLine, expectedErrorLine, outputLines, rco, ret, result,
         sessionsBeforeStart, host, stdin, stdout, tags, trace, block,
         snapshot, launches, written, runs, kills, prev, notes, streamFailed,
         name>>

\* the other control clients of server s are told that its sessions changed
Notified(r, i, s) ==
    [j \in Owners |->
        IF j # i /\ r[j].host = "alive" /\ r[j].socket = s
        THEN [r[j] EXCEPT !.stdout = Append(@, SessionsChanged)]
        ELSE r[j]]

\* Init: r.Config = c, and the executable is found
TwoInitTmux(i) ==
    /\ rs[i].pc = "new"
    /\ rs' = [rs EXCEPT ![i].Config = rs[i].c, ![i].pc = "Init_before"]
    /\ UNCHANGED <<server, one>>

\* Init: getSessionNamesByCommand, answered by the server of its arguments
TwoBefore(i) ==
    /\ rs[i].pc = "Init_before"
    /\ LET args == CommandArgs(rs[i].Config,
                               <<"list-sessions", "-F", "#{session_name}">>)
           names == server[SocketOf(args)].sessions
       IN  rs' = [rs EXCEPT ![i].sessionsBeforeStart = Split(OneShotOutput(names)),
                            ![i].pc = "Init_spawn"]
    /\ UNCHANGED <<server, one>>

\* Init: the control subprocess is started with its arguments
TwoSpawn(i) ==
    /\ rs[i].pc = "Init_spawn"
    /\ rs' = [rs EXCEPT ![i].host = "starting",
                        ![i].socket = SocketOf(ControlArgs(rs[i].Config)),
                        ![i].pc = "Init_startup"]
    /\ UNCHANGED <<server, one>>

\* the subprocess attaches to its server, which creates a session named by
\* its next number, and prints the startup block
TwoHostStartup(i) ==
    /\ rs[i].host = "starting"
    /\ LET s == rs[i].socket
           n == Itoa(server[s].next)
           r == [rs EXCEPT ![i].host = "alive",
                           ![i].own = n,
                           ![i].stdout = @ \o BlockLines(Tag(rs[i].tags), "end", <<>>),
                           ![i].tags = @ + 1]
       IN  /\ server' = [server EXCEPT ![s].sessions = Append(@, n),
                                       ![s].next = @ + 1]
           /\ rs' = Notified(r, i, s)
    /\ UNCHANGED one

\* Init: the startup block has been read; getSessionNames writes its command
TwoReadStartup(i) ==
    /\ rs[i].pc = "Init_startup"
    /\ LET f == readCommandOutputAll(rs[i].stdout)
       IN  /\ f.done # "block"
           /\ rs' = IF f.done = "panic"
                    THEN [rs EXCEPT ![i].pc = "panic", ![i].stdout = f.rest]
                    ELSE IF ~f.err.nil
                    THEN [rs EXCEPT ![i].pc = "Init_ret", ![i].stdout = f.rest,
                                    ![i].result = <<f.err>>]
                    ELSE [rs EXCEPT ![i].pc = "Init_list", ![i].stdout = f.rest,
                                    ![i].cmd = ListSessionsCmd,
                                    ![i].stdin = Append(@, ListSessionsCmd)]
    /\ UNCHANGED <<server, one>>

\* Init: the response to list-sessions has been read; the new sessions are
\* counted and the scratch session is recorded
TwoReadList(i) ==
    /\ rs[i].pc = "Init_list"
    /\ LET f == readCommandOutputAll(rs[i].stdout)
           res == RunResult(rs[i].cmd, f.output, f.err)
           new == newSessions(rs[i].sessionsBeforeStart, Split(Trim(res.output)))
       IN  /\ f.done # "block"
           /\ rs' = IF f.done = "panic"
                    THEN [rs EXCEPT ![i].pc = "panic", ![i].stdout = f.rest]
                    ELSE IF ~res.err.nil
                    THEN [rs EXCEPT ![i].pc = "Init_ret", ![i].stdout = f.rest,
                                    ![i].ret = <<res>>,
                                    ![i].result = <<res.err>>]
                    ELSE IF Len(new) # 1
                    THEN [rs EXCEPT ![i].pc = "Init_ret", ![i].stdout = f.rest,
                                    ![i].ret = <<res>>,
                                    ![i].result =
                                        <<Err(expectedOnePrefix \o Itoa(Len(new))
                                              \o <<":", " ">> \o Join(new, <<",">>))>>]
                    ELSE [rs EXCEPT ![i].pc = "Init_ret", ![i].stdout = f.rest,
                                    ![i].ret = <<res>>,
                                    ![i].tmpSession = new[1],
                                    ![i].result = <<Nil>>]
    /\ UNCHANGED <<server, one>>

TwoIdle(i) ==
    \/ rs[i].pc = "Init_ret" /\ rs[i].result = <<Nil>>
    \/ rs[i].pc = "Run_ret"

\* the owner calls Run(c): the command is written
TwoRun(i, c) ==
    /\ TwoIdle(i)
    /\ rs[i].runs < MaxRuns
    /\ rs' = [rs EXCEPT ![i].pc = "Run", ![i].cmd = c, ![i].ret = <<>>,
                        ![i].block = <<>>,
                        ![i].runs = @ + 1, ![i].stdin = Append(@, c)]
    /\ UNCHANGED <<server, one>>

\* Run: the response has been read
TwoReadRun(i) ==
    /\ rs[i].pc = "Run"
    /\ LET f == readCommandOutputAll(rs[i].stdout)
       IN  /\ f.done # "block"
           /\ rs' = IF f.done = "panic"
                    THEN [rs EXCEPT ![i].pc = "panic", ![i].stdout = f.rest]
                    ELSE [rs EXCEPT ![i].pc = "Run_ret", ![i].stdout = f.rest,
                                    ![i].ret = <<RunResult(rs[i].cmd, f.output, f.err)>>]
    /\ UNCHANGED <<server, one>>

\* the owner calls Close(): kill-session is written
TwoClose(i) ==
    /\ TwoIdle(i)
    /\ rs' = [rs EXCEPT ![i].pc = "Close", ![i].ret = <<>>, ![i].block = <<>>,
                        ![i].cmd = CloseCommand(rs[i].tmpSession),
                        ![i].stdin = Append(@, CloseCommand(rs[i].tmpSession))]
    /\ UNCHANGED <<server, one>>

\* Close: the response has been read and the subprocess is killed
TwoReadClose(i) ==
    /\ rs[i].pc = "Close"
    /\ LET f == readCommandOutputAll(rs[i].stdout)
           res == RunResult(rs[i].cmd, f.output, f.err)
       IN  /\ f.done # "block"
           /\ rs' = [rs EXCEPT ![i].pc = IF f.done = "panic" THEN "panic"
                                         ELSE "Close_ret",
                               ![i].stdout = f.rest,
                               ![i].host = "dead",
                               ![i].ret = IF f.done = "panic" THEN <<>> ELSE <<res>>,
                               ![i].result = IF f.done = "panic" THEN <<>>
                                             ELSE <<CloseResult(res.err, Nil)>>]
    /\ UNCHANGED <<server, one>>

CantFindPrefix == <<"c","a","n","'","t"," ","f","i","n","d"," ","s","e","s","s","i","o","n",":"," ">>

\* the subprocess reads the next command and answers it from its server:
\* list-sessions prints the sessions, kill-session removes the session
TwoHostRespond(i) ==
    /\ rs[i].host = "alive"
    /\ rs[i].stdin # <<>>
    /\ LET c == Head(rs[i].stdin)
           s == rs[i].socket
           sessions == server[s].sessions
           target == SubSeq(c, Len(KillSessionPrefix) + 1, Len(c))
           answer(kind, body) ==
               [rs EXCEPT ![i].stdin = Tail(@),
                          ![i].stdout = @ \o BlockLines(Tag(rs[i].tags), kind, body),
                          ![i].tags = @ + 1,
                          ![i].block = <<[cmd |-> c, kind |-> kind, body |-> body]>>]
       IN  IF c = ListSessionsCmd
           THEN /\ rs' = answer("end", sessions)
                /\ UNCHANGED server
           ELSE IF target \in Range(sessions)
           THEN /\ rs' = Notified(answer("end", <<>>), i, s)
                /\ server' = [server EXCEPT ![s].sessions =
                                 SelectSeq(@, LAMBDA x : x # target)]
           ELSE /\ rs' = answer("error", <<CantFindPrefix \o target>>)
                /\ UNCHANGED server
    /\ UNCHANGED one

NextTwo ==
    \E i \in Owners :
        \/ TwoInitTmux(i)
        \/ TwoBefore(i)
        \/ TwoSpawn(i)
        \/ TwoHostStartup(i)
        \/ TwoReadStartup(i)
        \/ TwoReadList(i)
        \/ TwoRun(i, ListSessionsCmd)
        \/ TwoReadRun(i)
        \/ TwoClose(i)
        \/ TwoReadClose(i)
        \/ TwoHostRespond(i)

SpecTwo == InitTwo /\ [][NextTwo]_vars

\* ------------------------------------------- the framer on any line stream
\* One Run whose command has been written, reading a stream that holds any
\* lines and then ends: readCommandOutput and the return of Run only.
FramerTags == {<<"1">>, <<"2">>}
FramerLines ==
    { BeginLine(t) : t \in FramerTags } \cup { EndLine(t) : t \in FramerTags }
        \cup { ErrorLine(t) : t \in FramerTags }
        \cup { <<"m","a","i","n">>,
                <<"%","s","e","s","s","i","o","n","s","-","c","h","a","n","g","e","d">> }

InitFramer ==
    /\ pc = "read" /\ op = "Run" /\ cmd = AttachCmd
    /\ Config = [Socket |-> ""] /\ tmpSession = <<"0">>
    /\ tmuxCommand = [args |-> <<"-C">>, Process |-> "started"]
    /\ readScanner = "none"
    /\ state = stateBeforeOutput /\ expectedEndLine = <<>>
    /\ expectedErrorLine = <<>> /\ outputLines = <<>>
    /\ rco = <<>> /\ ret = <<>> /\ result = <<>>
    /\ sessionsBeforeStart = <<>>
    /\ host = "dead" /\ stdin = <<>> /\ tags = 0
    /\ stdout \in SeqsUpTo(FramerLines, MaxStream)
    /\ trace = <<>> /\ block = <<>> /\ snapshot = NoSnapshot
    /\ launches = <<>> /\ written = 1 /\ runs = 1 /\ kills = <<>>
    /\ prev = "none" /\ notes = 0 /\ streamFailed = FALSE
    /\ name = <<>> /\ server = <<>> /\ rs = <<>>

NextFramer == readCommandOutput \/ RunReturn

SpecFramer == InitFramer /\ [][NextFramer]_vars


\* ------------------------------------------------------------------ claims
\* the response block of the current command has been printed completely
BlockDone == block # <<>> /\ block[1].printed = Len(block[1].lines)

\* the block printed last is the response to the command of the current Run:
\* the i-th block for the i-th command written
OwnBlock == block[1].cmd = cmd /\ block[1].index = written

\* the current Run has ended: it has returned or it has panicked
RunEnded ==
    /\ op \in {"Init_list", "Run", "Close"}
    /\ pc \in {"Run_ret", "panic", "Close_panic"}

\* the lines of the block are the last lines the current Run has read, and
\* no line read before them is a begin line
ReadThroughBlock ==
    LET n == Len(trace) - Len(block[1].lines)
    IN  /\ n >= 0
        /\ SubSeq(trace, n + 1, Len(trace)) = block[1].lines
        /\ \A i \in 1..n : ~isBeginLine(trace[i])

\* the text of the body of the block printed last
BodyText == Join(block[1].body, <<NL>>)

\* C1: a Run whose response block is a begin line, N body lines and the
\* matching end line returns exactly the N body lines joined by newlines and
\* no error, whatever was read before the begin line.
C1_RunReturnsBody ==
    (RunEnded /\ BlockDone /\ block[1].kind = "end")
        => /\ pc = "Run_ret"
           /\ ret = <<[output |-> BodyText, err |-> Nil]>>

\* C2: a Run whose response block ends with the matching error line returns
\* empty output and an error whose message contains the host's error text
\* and the command text verbatim.
C2_ErrorCarriesTexts ==
    (pc = "Run_ret" /\ rco # <<>> /\ state = stateError /\ BlockDone)
        => /\ ret[1].output = <<>>
           /\ ~ret[1].err.nil
           /\ Contains(ret[1].err.msg, BodyText)
           /\ Contains(ret[1].err.msg, cmd)

\* C3: while the framer is in BeforeOutput a line that is no begin line is
\* discarded silently, whatever its length: the call does not abort, the
\* framer stays in BeforeOutput and nothing is accumulated.
C3_SkippedSilently ==
    (trace # <<>> /\ \A i \in 1..Len(trace) : ~isBeginLine(trace[i]))
        => /\ pc \notin {"panic", "Close_panic"}
           /\ pc = "read" => (state = stateBeforeOutput /\ outputLines = <<>>)

\* C4: with one response block per command and notification lines between
\* blocks only, the i-th Run returns the content of the i-th block and has
\* read through the terminator of that block and no further.
C4_IthRunIthBlock ==
    (RunEnded /\ BlockDone)
        => /\ pc = "Run_ret"
           /\ OwnBlock
           /\ ReadThroughBlock
           /\ IF block[1].kind = "end"
              THEN ret = <<[output |-> BodyText, err |-> Nil]>>
              ELSE ret[1].output = <<>> /\ ~ret[1].err.nil


\* C5: after a Run that returned a host-reported error the next Run returns
\* the content of its own response block.
C5_UsableAfterProtocolError ==
    (RunEnded /\ op \in {"Run", "Close"} /\ prev = "protocol" /\ BlockDone)
        => /\ pc = "Run_ret"
           /\ OwnBlock
           /\ ReadThroughBlock
           /\ IF block[1].kind = "end"
              THEN ret = <<[output |-> BodyText, err |-> Nil]>>
              ELSE ret[1].output = <<>> /\ ~ret[1].err.nil

\* a read of the subprocess output has failed in the call that has returned
ReadFailedHere ==
    rco # <<>> /\ readScanner # "none" /\ pc \in {"rco_ret", "Run_ret"}

\* C6: when the read fails or reaches the end of the stream in BeforeOutput
\* or in InOutput, readCommandOutput returns at once with empty output and
\* an error, Run returns empty output and an error, the accumulated lines
\* are not returned and nothing more is read.
C6_ReadFailureStops ==
    /\ [](ReadFailedHere =>
            /\ state \in {stateBeforeOutput, stateOutput}
            /\ rco[1].output = <<>> /\ ~rco[1].err.nil
            /\ pc = "Run_ret" => (ret[1].output = <<>> /\ ~ret[1].err.nil))
    /\ [][(pc = "read" /\ readScanner' # "none")
            => (pc' = "rco_ret" /\ stdout' = stdout /\ trace' = trace
                /\ outputLines' = outputLines)]_vars

C6_Witness ==
    /\ ReadFailedHere /\ pc = "Run_ret" /\ op = "Run"
    /\ state = stateOutput /\ outputLines # <<>>

\* C7: once a read of the subprocess output has failed, every Run that
\* returns afterwards, the kill-session Run of Close included, returns an
\* error and no output, and so does Close.
C7_StreamErrorIsFatal ==
    streamFailed =>
        /\ pc = "Run_ret" => (~ret[1].err.nil /\ ret[1].output = <<>>)
        /\ pc = "Close_ret" => ~result[1].nil

C7_Witness ==
    /\ prev = "stream" /\ pc = "Run_ret" /\ op = "Run" /\ rco # <<>>

\* the names listed after the spawn and not before it
NewNames == snapshot.after \ snapshot.before

\* C8: Init returns an error and records no scratch session whenever the
\* number of names in the after snapshot and not in the before snapshot is 0
\* or at least 2; with exactly one such name it succeeds.
C8_InitFailsUnlessOneNew ==
    (pc = "Init_ret" /\ snapshot.taken = 2)
        => /\ Cardinality(NewNames) # 1 => (~result[1].nil /\ tmpSession = <<>>)
           /\ Cardinality(NewNames) = 1 => result[1].nil

C8_Witness ==
    /\ pc = "Init_ret" /\ snapshot.taken = 2
    /\ Cardinality(NewNames) >= 2 /\ ~result[1].nil

\* C9: whenever Init succeeds the recorded scratch session is the one name
\* listed after the spawn and not before it; it is not empty.
C9_ScratchIsTheNewName ==
    (pc = "Init_ret" /\ result = <<Nil>>)
        => /\ snapshot.taken = 2
           /\ NewNames = {tmpSession}
           /\ tmpSession # <<>>
           /\ tmpSession \notin snapshot.before

C9_Witness ==
    /\ pc = "Init_ret" /\ result = <<Nil>>
    /\ snapshot.before # {} /\ snapshot.before \subseteq snapshot.after

\* C10: Close kills the process once, after the kill-session Run has
\* returned and whether or not that Run failed; Close returns the error of
\* that Run, whatever the Kill returned.
C10_CloseKillsAndReturnsRunError ==
    /\ (op = "Close" /\ pc \in {"read", "rco_ret", "Run_ret"}) => kills = <<>>
    /\ pc = "Close_ret" => (Len(kills) = 1 /\ result = <<ret[1].err>>)
    /\ (op = "Close" /\ pc = "panic") => Len(kills) = 1

C10_Witness ==
    /\ pc = "Close_ret" /\ ~ret[1].err.nil /\ ~kills[1].nil

\* C19: the one-shot list-sessions and the control subprocess of one Init
\* are launched for the same server: each argument list begins with -L and
\* the Socket of the Config stored on the Runner when Socket is not empty,
\* and holds no -L when it is empty.
C19_SameServer ==
    /\ \A i \in 1..Len(launches) :
         IF Config.Socket # ""
         THEN /\ Len(launches[i]) > 2
              /\ SubSeq(launches[i], 1, 2) = <<"-L", Config.Socket>>
         ELSE "-L" \notin Range(launches[i])
    /\ Len(launches) >= 1 => launches[1][Len(launches[1])] = "#{session_name}"
    /\ Len(launches) = 2 => launches[2] = tmuxCommand.args
                             /\ launches[2][Len(launches[2])] = "-C"

C19_Witness ==
    /\ Len(launches) = 2 /\ Config.Socket # "" /\ pc = "Init_ret"

\* a step that is the call of Run by Init, by the caller or by Close
RunCalled == trace' = <<>> /\ block' = <<>> /\ rco' = <<>>
             /\ (runs' # runs \/ op' # op)

\* C17: when the write of the command fails, Run returns the write error
\* as it is, not wrapped with the command text, and empty output; it reads
\* nothing, so the unread lines and the scanner are as they were.
C17_WriteFailureReturnedUnchanged ==
    /\ []((pc = "Run_ret" /\ rco = <<>>)
            => (ret = <<[output |-> <<>>, err |-> ErrPipe]>> /\ trace = <<>>))
    /\ [][(RunCalled /\ pc' = "Run_ret")
            => /\ ret' = <<[output |-> <<>>, err |-> ErrPipe]>>
               /\ stdout' = stdout /\ readScanner' = readScanner
               /\ stdin' = stdin /\ written' = written]_vars

C17_Witness ==
    /\ pc = "Run_ret" /\ rco = <<>> /\ op = "Run" /\ stdout # <<>>
    /\ readScanner = "none"

\* C18: the scratch session recorded by Init is never changed afterwards;
\* Close writes one command, kill-session with exactly that name as target,
\* while the process has not been killed, and writes nothing else.
C18_CloseKillsTheRecordedSession ==
    /\ [](op = "Close" => (tmpSession # <<>>
                            /\ cmd = KillSessionPrefix \o tmpSession))
    /\ [][tmpSession # <<>> => tmpSession' = tmpSession]_vars
    /\ [][(op' = "Close" /\ op # "Close")
            => /\ kills = <<>> /\ kills' = <<>>
               /\ \/ stdin' = Append(stdin, KillSessionPrefix \o tmpSession)
                     /\ written' = written + 1
                  \/ stdin' = stdin /\ written' = written /\ pc' = "Run_ret"]_vars
    /\ [][(op = "Close" /\ op' = "Close")
            => (written' = written /\ Len(stdin') <= Len(stdin))]_vars

C18_Witness ==
    /\ pc = "Close_ret" /\ runs >= 1 /\ prev = "protocol" /\ ret[1].err.nil
    /\ Len(kills) = 1

\* C15: Init takes the before snapshot by the one-shot process before it
\* spawns the control subprocess; between the spawn and the write of the
\* list-sessions command it reads exactly the startup block; the output of
\* the after snapshot is the body of the response to list-sessions, the
\* second block printed.
C15_InitOrder ==
    /\ []((op \in {"Init", "Init_startup", "Init_list"} /\ tmuxCommand # NoCommand)
            => /\ snapshot.taken >= 1
               /\ launches # <<>>
               /\ launches[1][Len(launches[1])] = "#{session_name}")
    /\ [](op = "Init_startup" => (written = 0 /\ stdin = <<>>))
    /\ [][(op = "Init_startup" /\ op' = "Init_list")
            => /\ trace = BlockLines(Tag(0), "end", <<>>)
               /\ state = stateEnd
               /\ written = 0
               /\ pc' = "read" => (written' = 1 /\ stdin' = <<ListSessionsCmd>>)]_vars
    /\ []((op = "Init_list" /\ pc = "Run_ret" /\ ret[1].err.nil)
            => /\ BlockDone /\ block[1].cmd = ListSessionsCmd
               /\ block[1].index = 1
               /\ ret[1].output = BodyText)

C15_Witness ==
    /\ pc = "Init_ret" /\ result = <<Nil>> /\ snapshot.taken = 2
    /\ Len(launches) = 2 /\ written = 1 /\ tags = 2

\* the failures of the steps of Init and Run, the start of the subprocess
\* left aside, are returned at once, as they are or wrapped by Run
OtherFailuresReturned ==
    /\ (op = "Init" /\ pc = "Init_ret")
         => /\ result \in {<<ErrNotFound>>, <<ErrExit>>, <<ErrPipe>>}
            /\ host = "none" /\ written = 0 /\ trace = <<>>
    /\ (op = "Init_startup" /\ pc = "Init_ret")
         => (rco # <<>> /\ result = <<rco[1].err>> /\ written = 0)
    /\ (op = "Init_list" /\ pc = "Init_ret" /\ ~ret[1].err.nil)
         => (result = <<ret[1].err>> /\ tmpSession = <<>>)
    /\ (pc = "Run_ret" /\ rco = <<>>) => (ret[1].err = ErrPipe /\ trace = <<>>)
    /\ (pc \in {"rco_ret", "Run_ret"} /\ rco # <<>> /\ readScanner # "none")
         => /\ rco[1].err = (IF readScanner = "eof" THEN EOF ELSE ErrClosed)
            /\ pc = "Run_ret" => (~ret[1].err.nil
                                  /\ Contains(ret[1].err.msg, rco[1].err.msg))

\* C12: no failure of a step of Init or Run is swallowed: the operation
\* returns the error of the step that failed, as it is or wrapped, and
\* executes no later step; so when the subprocess fails to start, Init
\* returns at once and reads nothing.
C12_NoFailureSwallowed ==
    /\ OtherFailuresReturned
    /\ host = "failed" => (pc = "Init_ret" /\ ~result[1].nil /\ trace = <<>>
                           /\ readScanner = "none" /\ rco = <<>>)

\* a Run has returned the content of a complete block with body lines
ReturnedBody ==
    /\ pc = "Run_ret" /\ rco # <<>> /\ ret[1].err.nil
    /\ BlockDone /\ block[1].body # <<>>

FirstBegin(tr) ==
    LET B == { i \in 1..Len(tr) : \E t \in FramerTags : tr[i] = BeginLine(t) }
    IN  IF B = {} THEN 0 ELSE CHOOSE i \in B : \A j \in B : i <= j

\* C16: once the begin line of a block has been read, the block is ended
\* only by the end or error marker followed by the tag of that begin line;
\* end and error lines with another tag and begin lines read inside the
\* block are appended to the body, nothing is read past the terminator, and
\* lines skipped before the begin line have no part in the terminators.
C16_OwnTerminatorOnly ==
    LET b == FirstBegin(trace)
    IN  b > 0 =>
          LET t == CHOOSE t \in FramerTags : trace[b] = BeginLine(t)
              after == SubSeq(trace, b + 1, Len(trace))
              terms == { i \in 1..Len(after) : after[i] \in {EndLine(t), ErrorLine(t)} }
          IN  /\ expectedEndLine = EndLine(t)
              /\ expectedErrorLine = ErrorLine(t)
              /\ IF terms = {}
                 THEN /\ state = stateOutput
                      /\ outputLines = after
                      /\ pc \in {"rco_ret", "Run_ret"} => ~rco[1].err.nil
                 ELSE /\ terms = {Len(after)}
                      /\ outputLines = SubSeq(after, 1, Len(after) - 1)
                      /\ pc \in {"rco_ret", "Run_ret"}
                      /\ IF after[Len(after)] = EndLine(t)
                         THEN /\ state = stateEnd
                              /\ rco[1].err.nil
                              /\ Split(rco[1].output) = IF outputLines = <<>> THEN <<(<<>>)>>
                                                        ELSE outputLines
                         ELSE /\ state = stateError
                              /\ ~rco[1].err.nil /\ rco[1].output = <<>>

C16_Witness ==
    /\ pc = "Run_ret" /\ ret[1].err.nil
    /\ trace = <<BeginLine(<<"1">>), EndLine(<<"2">>), BeginLine(<<"2">>),
                 EndLine(<<"1">>)>>
    /\ outputLines = <<EndLine(<<"2">>), BeginLine(<<"2">>)>>

\* C13: after Init has returned a bootstrap error (executable not found, or
\* a number of new sessions other than one) no later Run on that Runner
\* returns a successful result.
C13_UnusableAfterBootstrapError ==
    (op = "Run" /\ pc = "Run_ret" /\ tmpSession = <<>>) => ~ret[1].err.nil

\* C20: StartSession writes list-sessions first; it writes new-session for
\* the name only when the listing succeeded and no listed name equals the
\* name; when the name is listed it writes nothing more and returns nil;
\* when the listing fails it returns that error and writes nothing more.
\* A StartSession that returned nil leaves the name on the server, so a
\* second StartSession of the name creates nothing and no session is
\* created twice.
C20_StartSessionIdempotent ==
    /\ [][(pc \in {"Init_ret", "Start_ret"} /\ op' = "Start_list" /\ pc' = "read")
            => (stdin' = Append(stdin, ListSessionsCmd)
                /\ written' = written + 1)]_vars
    /\ [][(op = "Start_list" /\ op' = "Start_new")
            => /\ ret[1].err.nil
               /\ block[1].cmd = ListSessionsCmd
               /\ name \notin Range(block[1].body)
               /\ name \notin Range(server[Config.Socket].sessions)
               /\ cmd' = NewSessionPrefix \o name]_vars
    /\ [][(op = "Start_list" /\ pc = "Run_ret" /\ pc' = "Start_ret")
            => /\ written' = written /\ stdin' = stdin
               /\ IF ret[1].err.nil
                  THEN name \in Range(block[1].body) /\ result' = <<Nil>>
                  ELSE result' = <<ret[1].err>>]_vars
    /\ []((pc = "Start_ret" /\ result = <<Nil>>)
            => name \in Range(server[Config.Socket].sessions))
    /\ [](IsInjective(server[Config.Socket].sessions))

C20_Witness ==
    /\ pc = "Start_ret" /\ op = "Start_list" /\ result = <<Nil>>
    /\ runs = 2 /\ written = 4 /\ name = <<"m","a","i","n">>

\* each Init that has returned has succeeded and recorded the session its
\* own subprocess created, no call has panicked, and each Run that has
\* returned has returned the body of the response to its own command
EachOnItsOwn ==
    \A i \in Owners :
        /\ rs[i].pc # "panic"
        /\ rs[i].pc = "Init_ret"
             => (rs[i].result = <<Nil>> /\ rs[i].tmpSession = rs[i].own)
        /\ rs[i].pc \in {"Run", "Run_ret", "Close", "Close_ret"}
             => rs[i].tmpSession = rs[i].own
        /\ rs[i].pc \in {"Run_ret", "Close_ret"}
             => /\ rs[i].block # <<>>
                /\ rs[i].block[1].cmd = rs[i].cmd
                /\ rs[i].block[1].kind = "end"
                /\ rs[i].ret = <<[output |-> Join(rs[i].block[1].body, <<NL>>),
                                  err |-> Nil]>>

\* C11 as stated: two Runners working at the same time are independent
\* whatever their configurations: each Init succeeds and records the scratch
\* session of its own subprocess and each Run returns the response to its
\* own command.
C11_IndependentWhateverConfig == EachOnItsOwn

\* C11 as amended: two Runners whose configurations name different sockets,
\* and so different servers, are independent in every interleaving of their
\* steps.
C11_IndependentOnDifferentServers ==
    rs[1].c.Socket # rs[2].c.Socket => EachOnItsOwn

C11_Witness ==
    /\ rs[1].c.Socket # rs[2].c.Socket
    /\ rs[1].pc = "Run_ret" /\ rs[2].pc = "Close_ret"
    /\ rs[1].own = rs[2].own

\* Init has returned an error after it has spawned the control subprocess
InitFailedAfterSpawn ==
    /\ pc = "Init_ret" /\ ~result[1].nil
    /\ op \in {"Init_startup", "Init_list"}
    /\ tmuxCommand.Process = "started"

\* C21 as stated: whenever Init returns an error after it has spawned the
\* control subprocess, the subprocess has been terminated and is not left
\* running.
C21_InitLeaksNothing ==
    InitFailedAfterSpawn => host = "dead"

====
